---- MODULE Spec2Model ----
(***************************************************************************)
(* Model of src/lib/backend/page.js: the Page class that bridges a device  *)
(* (socket.io socket) and a devtools frontend (WebSocket), gated by the    *)
(* list of enabled domains.                                                *)
(*                                                                         *)
(* JavaScript strings are modelled as sequences of symbols, so that        *)
(* indexOf('.') and slice() are computed the way the code computes them.   *)
(* JavaScript objects are modelled as records whose DOMAIN is the set of   *)
(* own keys.                                                               *)
(***************************************************************************)
EXTENDS Integers, Sequences, FiniteSets, TLC

\* ------------------------------------------------------------------ bounds
MaxWs   == 1   \* frontend channels that may ever connect
MaxDev  == 1   \* device sockets that may ever connect

\* ------------------------------------------------------------- JS helpers
None      == 0               \* this.ws / this.socket deleted or never set
Server    == -1              \* the WebSocket.Server the constructor stores in this.socket

Min(a, b) == IF a < b THEN a ELSE b
Max(a, b) == IF a > b THEN a ELSE b

Range(s) == { s[i] : i \in 1..Len(s) }

\* String.prototype.indexOf / Array.prototype.indexOf: 0-based, -1 if absent
indexOf_last(s, x) ==
    IF \E i \in 1..Len(s) : s[i] = x
    THEN (CHOOSE i \in 1..Len(s) : s[i] = x /\ \A j \in (i+1)..Len(s) : s[j] # x) - 1
    ELSE -1

indexOf(s, x) ==
    IF \E i \in 1..Len(s) : s[i] = x
    THEN (CHOOSE i \in 1..Len(s) : s[i] = x /\ \A j \in 1..(i-1) : s[j] # x) - 1
    ELSE -1

\* relative index normalisation shared by slice and splice
relIndex(k, len) == IF k < 0 THEN Max(len + k, 0) ELSE Min(k, len)

\* String.prototype.slice(start, end)
slice(s, start, end) ==
    LET from == relIndex(start, Len(s))
        to   == relIndex(end, Len(s))
    IN  IF from < to THEN SubSeq(s, from + 1, to) ELSE <<>>

\* String.prototype.slice(start)
sliceFrom(s, start) == slice(s, start, Len(s))

\* Array.prototype.includes
includes(arr, x) == \E i \in 1..Len(arr) : arr[i] = x

\* Array.prototype.splice(start, deleteCount): the array that is left
splice(arr, start, deleteCount) ==
    LET from == relIndex(start, Len(arr))
        dc   == Min(Max(deleteCount, 0), Len(arr) - from)
    IN  SubSeq(arr, 1, from) \o SubSeq(arr, from + dc + 1, Len(arr))

\* { ...obj, k: src.k }: a key whose value is undefined is represented as an
\* absent key (it reads as undefined and JSON.stringify leaves it out)
CopyKey(obj, k, src) == IF k \in DOMAIN src THEN (k :> src[k]) @@ obj ELSE obj

\* object with the key k removed (delete obj.k)
Delete_kept(obj, k) == obj

Delete(obj, k) == [x \in (DOMAIN obj) \ {k} |-> obj[x]]

\* JSON.stringify: the text that encodes the object's defined keys
JSONstringify(obj) == [json |-> obj]

Garbage == [garbage |-> TRUE]    \* a text that is not JSON

\* A JS string value is either a symbol sequence wrapped as [str |-> s] or a
\* JSON text wrapped as [json |-> the value it encodes]; an array is wrapped
\* as [array |-> list]; any other record is a plain object.
JSString(s) == [str |-> s]
JSArray(l)  == [array |-> l]

\* typeof x === 'string'
typeofString(x) == "str" \in DOMAIN x \/ "json" \in DOMAIN x

\* Array.isArray(x)
isArray(x) == "array" \in DOMAIN x

\* JSON.parse: throws on a text that is not JSON
JSONparseThrows(text) == "garbage" \in DOMAIN text.json
JSONparse(text) == text.json

EmptyObject == [k \in {} |-> TRUE]      \* the literal {}

\* ------------------------------------------------------------ vocabulary
DOT     == "."
ENABLE  == <<"enable">>                 \* the string 'enable'
DISABLE == <<"disable">>                \* the string 'disable'

Network == <<"Network">>
PageDom == <<"Page">>
DOM     == <<"DOM">>
Domains == {Network, PageDom, DOM}

\* ---------------------------------------------------------- collaborators
\* ../../logger: this.log(...) on line 103 returns normally ("logs a no-op
\* notice"); the logger has no effect on the page.
LoggerFaults == FALSE

\* ../middleware: registry keyed by domain, then by method
middleware == [d \in {Network} |-> [m \in {<<"getResponseBodyData">>} |-> "handler"]]

\* middleware[msg._domain] && middleware[msg._domain][msg._method]
hasMiddleware(msg) ==
    /\ "_domain" \in DOMAIN msg
    /\ "_method" \in DOMAIN msg
    /\ msg._domain \in DOMAIN middleware
    /\ msg._method \in DOMAIN middleware[msg._domain]

\* the registered handler applied to msg.result
callMiddleware(msg) ==
    IF "result" \in DOMAIN msg THEN [body |-> msg.result] ELSE EmptyObject

\* ------------------------------------------------------- EventEmitter.emit
\* emit(type, ...args): the event name is a property key, so an object
\* passed as the name is coerced to the key "[object Object]".
ObjectKey == "[object Object]"

emit(p, ev) == [p EXCEPT !.emitted = Append(@, ev)]

throw(p) == [p EXCEPT !.fault = TRUE]

\* ------------------------------------------------------------ Page methods
\* The methods are operators on a page record
\*   p = [domains, ws, readyState, emitted, wire, mw, fault]
\* domains    this.domains
\* ws         this.ws (a channel, or None)
\* readyState this.ws.readyState ("none" when there is no this.ws)
\* emitted    the emit() calls made by the running handler, in order
\* wire       the texts handed to this.ws.send by the running handler
\* mw         the middleware handlers invoked by the running handler
\* fault      the running handler threw

\* enable(domain), lines 102-108, for a domain that is not an array
enableOne_noCheck(p, domain) ==
    [emit(p, [type |-> "domainEnabled", domain |-> domain, domains |-> p.domains])
        EXCEPT !.domains = Append(p.domains, domain)]

enableOne_unshift(p, domain) ==
    IF includes(p.domains, domain)
    THEN IF LoggerFaults THEN throw(p) ELSE p
    ELSE [emit(p, [type |-> "domainEnabled", domain |-> domain, domains |-> p.domains])
            EXCEPT !.domains = <<domain>> \o p.domains]

enableOne_silent(p, domain) ==
    IF includes(p.domains, domain)
    THEN IF LoggerFaults THEN throw(p) ELSE p
    ELSE [p EXCEPT !.domains = Append(p.domains, domain)]

enableOne(p, domain) ==
    IF includes(p.domains, domain)
    THEN IF LoggerFaults THEN throw(p) ELSE p
    ELSE [emit(p, [type |-> "domainEnabled", domain |-> domain, domains |-> p.domains])
            EXCEPT !.domains = Append(p.domains, domain)]

\* domain.forEach((domain) => this.enable(domain)): stops at the first throw
RECURSIVE forEachEnable(_, _, _)
forEachEnable(p, list, i) ==
    IF i > Len(list) \/ p.fault THEN p
    ELSE forEachEnable(enableOne(p, list[i]), list, i + 1)

enable(p, domain) ==
    IF isArray(domain)
    THEN forEachEnable(p, domain.array, 1)
    ELSE enableOne(p, domain.str)

\* disable(domain)
disable_spliceOne(p, domain) ==
    LET pos == indexOf(p.domains, domain)
    IN  [p EXCEPT !.domains = splice(p.domains, pos, 1)]

disable(p, domain) ==
    LET pos == indexOf(p.domains, domain)
    IN  [p EXCEPT !.domains = splice(p.domains, pos, pos + 1)]

\* isDomainSupported(msg)
isDomainSupported_known(p, msg) ==
    IF typeofString(msg)
    THEN includes(p.domains, msg.str)
    ELSE LET method     == IF "method" \in DOMAIN msg THEN msg.method ELSE <<>>
             splitPoint == indexOf(method, DOT)
         IN  slice(method, 0, splitPoint) \in Domains

isDomainSupported(p, msg) ==
    IF typeofString(msg)
    THEN includes(p.domains, msg.str)
    ELSE LET method     == IF "method" \in DOMAIN msg THEN msg.method ELSE <<>>
             splitPoint == indexOf(method, DOT)
         IN  includes(p.domains, slice(method, 0, splitPoint))

\* send(msg)
RECURSIVE send(_, _)
send_lookupFirst(p, msg) ==
    IF hasMiddleware(msg)
    THEN LET result == callMiddleware(msg)
         IN  send([p EXCEPT !.mw = Append(@, <<msg._domain, msg._method>>)],
                  CopyKey([result |-> result], "id", msg))
    ELSE IF p.ws = None THEN p
    ELSE LET stripped  == Delete(Delete(msg, "_domain"), "_method")
             msgString == JSONstringify(stripped)
         IN  IF p.readyState # "OPEN" THEN p
             ELSE [p EXCEPT !.wire = Append(@, msgString)]

send_noReadyCheck(p, msg) ==
    IF p.ws = None THEN p
    ELSE IF hasMiddleware(msg)
    THEN LET result == callMiddleware(msg)
         IN  send([p EXCEPT !.mw = Append(@, <<msg._domain, msg._method>>)],
                  CopyKey([result |-> result], "id", msg))
    ELSE LET stripped  == Delete(Delete(msg, "_domain"), "_method")
             msgString == JSONstringify(stripped)
         IN  [p EXCEPT !.wire = Append(@, msgString)]

send(p, msg) ==
    IF p.ws = None THEN p
    ELSE IF hasMiddleware(msg)
    THEN LET result == callMiddleware(msg)
         IN  send([p EXCEPT !.mw = Append(@, <<msg._domain, msg._method>>)],
                  CopyKey([result |-> result], "id", msg))
    ELSE LET stripped  == Delete(Delete(msg, "_domain"), "_method")
             msgString == JSONstringify(stripped)
         IN  IF p.readyState # "OPEN" THEN p
             ELSE [p EXCEPT !.wire = Append(@, msgString)]

\* handleIncomming(payload)
handleIncomming(p, payload) ==
    IF typeofString(payload) /\ JSONparseThrows(payload) THEN throw(p)
    ELSE
    LET msg == IF typeofString(payload) THEN JSONparse(payload) ELSE payload IN
    IF "method" \notin DOMAIN msg THEN throw(p)    \* msg.method.indexOf
    ELSE
    LET splitPoint == indexOf(msg.method, DOT)
        domain     == slice(msg.method, 0, splitPoint)
        method     == sliceFrom(msg.method, splitPoint + 1)
    IN  IF method = ENABLE /\ isDomainSupported(p, JSString(domain))
        THEN LET q == enable(p, JSString(domain))
             IN  IF q.fault THEN q
                 ELSE send(q, CopyKey([params |-> EmptyObject], "id", msg))
        ELSE IF method = DISABLE
        THEN emit(disable(p, domain), [type |-> ObjectKey])
        ELSE IF ~isDomainSupported(p, msg) THEN p
        ELSE emit(p, [type |-> "incomming", method |-> method,
                      domain |-> domain, msg |-> msg])

\* ------------------------------------------------------------------ inputs
WsChans  == 1..MaxWs
DevChans == 1..MaxDev
Ids      == {1}        \* msg.id

LoadingFinished == <<"loadingFinished">>

\* well-formed "<Domain>.<method>" strings
Dotted(d, m) == d \o <<DOT>> \o m

MethodStrings ==
    { Dotted(Network, m) : m \in {ENABLE, DISABLE, LoadingFinished} }
    \cup { Network \o LoadingFinished,      \* no separator
           ENABLE,                          \* no separator, no domain
           Dotted(Network, Dotted(<<"a">>, <<"b">>)) }  \* two separators

Requests == { [id |-> i, method |-> s] : i \in Ids, s \in MethodStrings }
            \cup { [id |-> i] : i \in Ids }           \* no method field

\* what a 'message' listener may be handed: a decoded object or a text
Payloads ==
    Requests
    \cup { [json |-> [id |-> i, method |-> Dotted(Network, ENABLE)]] : i \in Ids }
    \cup { [json |-> Garbage] }

ResultOk == [ok |-> TRUE]

\* what a device 'result' event may carry
DeviceResults ==
    { [id |-> i, result |-> ResultOk] : i \in Ids }
    \cup { [id |-> i, result |-> ResultOk,
            _domain |-> Network, _method |-> <<"getResponseBodyData">>] : i \in Ids }
    \cup { [id |-> i, result |-> ResultOk,
            _domain |-> DOM, _method |-> LoadingFinished] : i \in Ids }

\* what a device handshake may carry as supportedDomains
DomainLists ==
    { <<>>, <<Network>>, <<PageDom, Network>>, <<DOM, DOM>>, <<Network, PageDom, DOM>> }

\* ------------------------------------------------------------------- state
VARIABLES
    domains,      \* this.domains
    ws,           \* this.ws: a frontend channel, or None
    isConnected,  \* this.isConnected
    socket,       \* this.socket: Server, a device socket, or None
    wsState,      \* per frontend channel: "unused" or its readyState
    devs,         \* device sockets the page has registered listeners on
    last          \* the handler that ran last and what it did

vars == <<domains, ws, isConnected, socket, wsState, devs, last>>

Done(opname, argv, p) ==
    [op |-> opname, arg |-> argv, pre |-> domains,
     emitted |-> p.emitted, wire |-> p.wire, mw |-> p.mw, fault |-> p.fault]

\* the page record the running handler starts from
This ==
    [domains |-> domains, ws |-> ws,
     readyState |-> IF ws = None THEN "none" ELSE wsState[ws],
     emitted |-> <<>>, wire |-> <<>>, mw |-> <<>>, fault |-> FALSE]

\* constructor
Init ==
    /\ domains = <<>>
    /\ ws = None
    /\ isConnected = FALSE
    /\ socket = Server
    /\ wsState = [c \in WsChans |-> "unused"]
    /\ devs = {}
    /\ last = Done("constructor", None, This)

\* --------------------------------------------------------- entry points
\* connect(socket): a fresh device socket arrives
connect(d) ==
    /\ d \notin devs
    /\ \A e \in DevChans : e < d => e \in devs
    /\ socket' = d
    /\ devs' = devs \cup {d}
    /\ last' = Done("connect", d, This)
    /\ UNCHANGED <<domains, ws, isConnected, wsState>>

\* disconnect()
disconnect ==
    /\ socket' = None
    /\ last' = Done("disconnect", None, This)
    /\ UNCHANGED <<domains, ws, isConnected, wsState, devs>>

\* connectWebSocket(ws): a fresh frontend channel arrives, not yet open
connectWebSocket(c) ==
    /\ wsState[c] = "unused"
    /\ \A e \in WsChans : e < c => wsState[e] # "unused"
    /\ ws' = c
    /\ wsState' = [wsState EXCEPT ![c] = "CONNECTING"]
    /\ last' = Done("connectWebSocket", c, This)
    /\ UNCHANGED <<domains, isConnected, socket, devs>>

\* disconnectWebSocket()
disconnectWebSocket_reset ==
    /\ isConnected' = FALSE
    /\ ws' = None
    /\ domains' = <<>>
    /\ last' = Done("disconnectWebSocket", None, This)
    /\ UNCHANGED <<socket, wsState, devs>>

disconnectWebSocket ==
    /\ isConnected' = FALSE
    /\ ws' = None
    /\ last' = Done("disconnectWebSocket", None, This)
    /\ UNCHANGED <<domains, socket, wsState, devs>>

\* this.ws.on('open', () => (this.isConnected = true))
OnWsOpen(c) ==
    /\ wsState[c] = "CONNECTING"
    /\ wsState' = [wsState EXCEPT ![c] = "OPEN"]
    /\ isConnected' = TRUE
    /\ last' = Done("wsOpen", [attached |-> c = ws], This)
    /\ UNCHANGED <<domains, ws, socket, devs>>

\* this.ws.on('close', () => ::this.disconnectWebSocket): the listener
\* builds the bound function and does not call it (a channel closes after
\* it opened)
OnWsClose(c) ==
    /\ wsState[c] = "OPEN"
    /\ wsState' = [wsState EXCEPT ![c] = "CLOSED"]
    /\ last' = Done("wsClose", [attached |-> c = ws], This)
    /\ UNCHANGED <<domains, ws, isConnected, socket, devs>>

\* a handler that ran on the page record and left p
Ran(opname, argv, p) ==
    /\ domains' = p.domains
    /\ last' = Done(opname, argv, p)
    /\ UNCHANGED <<ws, isConnected, socket, wsState, devs>>

\* this.ws.on('message', ::this.handleIncomming)
OnWsMessage(c, payload) ==
    /\ wsState[c] = "OPEN"
    /\ Ran("handleIncomming", [attached |-> c = ws, payload |-> payload],
           handleIncomming(This, payload))

\* enable(domain) called by another part of the app with one domain (the
\* list form is what the device handshake passes)
CallEnable(domain) ==
    /\ domain \in Domains
    /\ Ran("enable", domain, enable(This, JSString(domain)))

\* disable(domain) called by another part of the app
CallDisable(domain) ==
    /\ domain \in Domains
    /\ Ran("disable", domain, disable(This, domain))

\* this.socket.on('result', ::this.send)
OnSocketResult(d, msg) ==
    /\ d \in devs
    /\ Ran("send", [attached |-> d = socket, msg |-> msg], send(This, msg))

\* this.socket.on('connection', (msg) => { this.enable(msg.supportedDomains) ... })
OnSocketConnection(d, list) ==
    /\ d \in devs
    /\ Ran("handshake", [attached |-> d = socket, supportedDomains |-> list],
           enable(This, JSArray(list)))

\* this.socket.on('debug', (msg) => this.log.debug(msg))
OnSocketDebug(d) ==
    /\ d \in devs
    /\ Ran("debug", [attached |-> d = socket], This)

Next ==
    \/ \E d \in DevChans : connect(d)
    \/ disconnect
    \/ \E c \in WsChans : connectWebSocket(c)
    \/ disconnectWebSocket
    \/ \E c \in WsChans : OnWsOpen(c)
    \/ \E c \in WsChans : OnWsClose(c)
    \/ \E c \in WsChans, payload \in Payloads : OnWsMessage(c, payload)
    \/ \E domain \in Domains : CallEnable(domain)
    \/ \E domain \in Domains : CallDisable(domain)
    \/ \E d \in DevChans, msg \in DeviceResults : OnSocketResult(d, msg)
    \/ \E d \in DevChans, list \in DomainLists : OnSocketConnection(d, list)
    \/ \E d \in DevChans : OnSocketDebug(d)

Spec == Init /\ [][Next]_vars

\* ------------------------------------------------------ reading the state
TypeOK ==
    /\ isConnected \in BOOLEAN
    /\ ws \in WsChans \cup {None}
    /\ socket \in DevChans \cup {None, Server}
    /\ Range(domains) \subseteq Domains

\* isDomainSupported('<domain>') in the current state
IsEnabled(D) == isDomainSupported(This, JSString(D))

WasEnabled(D) == includes(last.pre, D)

\* the client channel is attached and its readyState is OPEN
ClientOpen == ws # None /\ wsState[ws] = "OPEN"

\* the last handler was handleIncomming on a message that has a method string
LastIsRequest ==
    /\ last.op = "handleIncomming"
    /\ \/ ~typeofString(last.arg.payload)
       \/ ~JSONparseThrows(last.arg.payload)
    /\ "method" \in DOMAIN (IF typeofString(last.arg.payload)
                             THEN JSONparse(last.arg.payload) ELSE last.arg.payload)

LastRequest ==
    IF typeofString(last.arg.payload) THEN JSONparse(last.arg.payload) ELSE last.arg.payload

\* domain and method of the last request as handleIncomming splits them
LastDomain == slice(LastRequest.method, 0, indexOf(LastRequest.method, DOT))
LastMethod == sliceFrom(LastRequest.method, indexOf(LastRequest.method, DOT) + 1)

\* the last request is the well-formed "<D>.<m>"
LastIsDotted(D, m) == LastIsRequest /\ LastRequest.method = Dotted(D, m)

\* the last handler was disableDomain(D), called directly or through an
\* inbound "D.disable"
LastDisabled(D) ==
    \/ last.op = "disable" /\ last.arg = D
    \/ LastIsDotted(D, DISABLE)

\* the sequence without the entries equal to x
Without(seq, x) == SelectSeq(seq, LAMBDA y : y # x)

Incomings == SelectSeq(last.emitted, LAMBDA e : e.type = "incomming")

\* ------------------------------------------------------------------ claims

\* C1: once a domain D is enabled, isDomainEnabled(D) is true right after the
\* enable and stays true across every step that is not disableDomain(D); in
\* particular disabling another domain keeps D enabled.
C1_EnabledUntilDisabled ==
    /\ (last.op = "enable" /\ ~last.fault) => IsEnabled(last.arg)
    /\ \A D \in Domains : (WasEnabled(D) /\ ~LastDisabled(D)) => IsEnabled(D)

\* C2: disableDomain(D) leaves the sequence it found with only D taken out,
\* every other domain still present in the same relative order.
C2_DisableRemovesExactlyD ==
    \A D \in Domains : LastDisabled(D) => domains = Without(last.pre, D)

\* C3: an inbound "<D>.enable" always leaves D enabled and, with an open
\* client channel, sends an acknowledgment echoing the request id, whatever
\* the domain state was.
C3_EnableAlwaysAcked ==
    \A D \in Domains :
        LastIsDotted(D, ENABLE) =>
            /\ IsEnabled(D)
            /\ ClientOpen =>
                   \E i \in 1..Len(last.wire) :
                       /\ "id" \in DOMAIN JSONparse(last.wire[i])
                       /\ JSONparse(last.wire[i]).id = LastRequest.id

\* C4: an inbound {id: i, method: "<D>.enable"} for a supported domain D with
\* the client channel attached and open enables D and transmits exactly one
\* message, the acknowledgment {id: i, result: {}}.
C4_EnableAckShape ==
    \A D \in Domains :
        (LastIsDotted(D, ENABLE) /\ WasEnabled(D) /\ ClientOpen) =>
            /\ IsEnabled(D)
            /\ last.wire = << JSONstringify([id |-> LastRequest.id, result |-> EmptyObject]) >>

\* C5 (as stated): a device result that names a domain that is not enabled
\* is not transmitted to the client.
C5_OnlyEnabledTransmitted ==
    (last.op = "send" /\ "_domain" \in DOMAIN last.arg.msg
        /\ ~IsEnabled(last.arg.msg._domain)) => last.wire = <<>>

\* C5 (amended): an incoming event fires only for a domain that is in
\* enabledDomains; the outbound path has no domain filter, so every device
\* result handled while the client channel is attached and open is
\* transmitted, as exactly one message.
C5_InboundGatedOutboundNot ==
    /\ \A i \in 1..Len(Incomings) : IsEnabled(Incomings[i].domain)
    /\ (last.op = "send" /\ ClientOpen) => Len(last.wire) = 1

C5_Witness ==
    /\ last.op = "send" /\ ClientOpen
    /\ "_domain" \in DOMAIN last.arg.msg
    /\ ~IsEnabled(last.arg.msg._domain)
    /\ Len(last.wire) = 1

\* C6: when the attached client channel delivers its close notification, no
\* client channel is attached afterwards and clientConnected is false.
C6_CloseDisconnects ==
    (last.op = "wsClose" /\ last.arg.attached) => (ws = None /\ ~isConnected)

\* C7: clientConnected is true only if a client channel is attached and that
\* channel has reported open.
C7_ConnectedOnlyIfOpened ==
    isConnected => (ws # None /\ wsState[ws] \in {"OPEN", "CLOSED"})

\* C8: enabledDomains contains no duplicates.
C8_NoDuplicates ==
    \A i, j \in 1..Len(domains) : domains[i] = domains[j] => i = j

C8_Witness ==
    /\ last.op = "enable" /\ WasEnabled(last.arg)
    /\ Len(Without(domains, last.arg)) = Len(domains) - 1

\* C9: disableDomain(D) for a domain D that is not in enabledDomains leaves
\* enabledDomains exactly as it was and raises no error.
C9_DisableAbsentIsNoop ==
    \A D \in Domains :
        (LastDisabled(D) /\ ~WasEnabled(D)) => (domains = last.pre /\ ~last.fault)

C9_Witness ==
    /\ last.op = "disable" /\ ~WasEnabled(last.arg)
    /\ Len(last.pre) = 2 /\ domains = last.pre

\* C10: an inbound message whose method is neither enable nor disable and
\* whose domain is not in enabledDomains is dropped silently: no incoming
\* event, nothing transmitted, no error, enabledDomains unchanged.
C10_NotEnabledDropped ==
    (LastIsRequest /\ LastMethod \notin {ENABLE, DISABLE} /\ ~includes(last.pre, LastDomain)) =>
        /\ last.emitted = <<>>
        /\ last.wire = <<>>
        /\ ~last.fault
        /\ domains = last.pre

C10_Witness ==
    /\ LastIsDotted(Network, LoadingFinished)
    /\ ~WasEnabled(Network) /\ WasEnabled(PageDom)
    /\ ClientOpen
    /\ last.emitted = <<>> /\ last.wire = <<>>

\* C11: an inbound "<D>.<m>" with m other than enable/disable, arriving
\* while D is enabled, fires exactly one incoming event carrying domain D,
\* the method after the first '.', and the message, whether or not a device
\* or client channel is attached.
C11_EnabledForwarded ==
    \A D \in Domains, m \in {LoadingFinished, Dotted(<<"a">>, <<"b">>)} :
        (LastIsDotted(D, m) /\ WasEnabled(D)) =>
            last.emitted = << [type |-> "incomming", method |-> m,
                               domain |-> D, msg |-> LastRequest] >>

C11_Witness ==
    /\ LastIsDotted(Network, Dotted(<<"a">>, <<"b">>))
    /\ WasEnabled(Network)
    /\ ws = None /\ socket = None
    /\ Len(Incomings) = 1

\* C12: no text handed to the client channel contains the private _domain
\* or _method keys; a device result without a registered transformation is
\* delivered as its id and result only.
C12_NoPrivateFieldsOnWire ==
    /\ \A i \in 1..Len(last.wire) :
           /\ "_domain" \notin DOMAIN JSONparse(last.wire[i])
           /\ "_method" \notin DOMAIN JSONparse(last.wire[i])
    /\ (last.op = "send" /\ ClientOpen /\ ~hasMiddleware(last.arg.msg)) =>
           last.wire = << JSONstringify([id |-> last.arg.msg.id,
                                         result |-> last.arg.msg.result]) >>

C12_Witness ==
    /\ last.op = "send" /\ ClientOpen
    /\ "_domain" \in DOMAIN last.arg.msg
    /\ ~hasMiddleware(last.arg.msg)
    /\ last.wire = << JSONstringify([id |-> last.arg.msg.id, result |-> ResultOk]) >>

\* C13: a send attempted while the client channel is absent, or attached
\* but not open, transmits nothing and raises no exception; nothing is
\* buffered: whatever a handler transmits comes from its own input (a send
\* transmits at most its one message, a request at most its one reply, the
\* other handlers nothing).
C13_ClosedSendDropped ==
    /\ (last.op = "send" /\ ~ClientOpen) => (last.wire = <<>> /\ ~last.fault)
    /\ Len(last.wire) <= 1
    /\ last.op \notin {"send", "handleIncomming"} => last.wire = <<>>
    /\ (last.op = "handleIncomming" /\ last.wire # <<>>) =>
           (LastIsRequest /\ LastMethod = ENABLE)

C13_Witness ==
    /\ last.op = "send"
    /\ ws # None /\ wsState[ws] = "CONNECTING"
    /\ last.wire = <<>> /\ ~last.fault

\* the entries of list that are not in seq, each once, in list order
RECURSIVE NewEntries(_, _)
NewEntries(seq, list) ==
    IF list = <<>> THEN <<>>
    ELSE IF includes(seq, Head(list)) THEN NewEntries(seq, Tail(list))
    ELSE <<Head(list)>> \o NewEntries(Append(seq, Head(list)), Tail(list))

\* C14: a device handshake carrying supportedDomains = [d1, ..., dn] leaves
\* every listed domain enabled, the new ones added in list order after the
\* domains that were already enabled.
C14_HandshakeEnablesAll ==
    last.op = "handshake" =>
        /\ \A i \in 1..Len(last.arg.supportedDomains) :
               IsEnabled(last.arg.supportedDomains[i])
        /\ domains = last.pre \o NewEntries(last.pre, last.arg.supportedDomains)
        /\ ~last.fault

C14_Witness ==
    /\ last.op = "handshake"
    /\ last.arg.supportedDomains = <<Network, PageDom, DOM>>
    /\ last.pre = <<PageDom>>
    /\ domains = <<PageDom, Network, DOM>>

\* C15: handling an inbound message whose method has no '.' ends in a
\* fault; it never enables or disables a domain, fires no incoming event
\* and produces no acknowledgment.
C15_NoSeparatorFaults ==
    (LastIsRequest /\ indexOf(LastRequest.method, DOT) = -1) =>
        /\ last.fault
        /\ last.emitted = <<>>
        /\ last.wire = <<>>
        /\ domains = last.pre

DomainEnabledEvents(D) ==
    SelectSeq(last.emitted, LAMBDA e : e.type = "domainEnabled" /\ e.domain = D)

\* C16: a handler emits exactly one domainEnabled(D) when D enters
\* enabledDomains and none otherwise (D already enabled, or not touched), so
\* the notifications for D count the times D entered enabledDomains.
C16_OneNotificationPerEntry ==
    \A D \in Domains :
        Len(DomainEnabledEvents(D)) = IF ~WasEnabled(D) /\ IsEnabled(D) THEN 1 ELSE 0

C16_Witness ==
    /\ last.op = "handshake"
    /\ last.arg.supportedDomains = <<DOM, DOM>>
    /\ ~WasEnabled(DOM)
    /\ Len(DomainEnabledEvents(DOM)) = 1

\* C17: a send handled while a client channel is attached invokes the
\* registered transformation of its (_domain, _method) once, sends the
\* output as a new message with the same id and is not transformed again;
\* without a client channel the transformation is not invoked.
C17_TransformOnce ==
    /\ Len(last.mw) <= 1
    /\ (last.op = "send" /\ ws # None /\ hasMiddleware(last.arg.msg)) =>
           /\ last.mw = << <<last.arg.msg._domain, last.arg.msg._method>> >>
           /\ ClientOpen =>
                  last.wire = << JSONstringify([id |-> last.arg.msg.id,
                                                result |-> callMiddleware(last.arg.msg)]) >>
    /\ (last.op = "send" /\ ~hasMiddleware(last.arg.msg)) => last.mw = <<>>
    /\ ws = None => last.mw = <<>>

C17_Witness ==
    /\ last.op = "send" /\ ClientOpen
    /\ hasMiddleware(last.arg.msg)
    /\ Len(last.mw) = 1 /\ Len(last.wire) = 1

\* the last handler was started by an event of a channel that is no longer
\* the attached one (replaced, or detached by disconnect)
LastFromFormerChannel ==
    /\ last.op \in {"handleIncomming", "send", "handshake"}
    /\ ~last.arg.attached

\* C18: an event that arrives from a channel that was replaced or detached
\* has no effect: no incoming event, nothing transmitted to the client, no
\* change to enabledDomains.
C18_FormerChannelIgnored ==
    LastFromFormerChannel =>
        /\ last.emitted = <<>>
        /\ last.wire = <<>>
        /\ domains = last.pre

\* C19: when a domainEnabled(D) notification is delivered, D is already in
\* enabledDomains.
C19_AppendBeforeEmit ==
    \A i \in 1..Len(last.emitted) :
        last.emitted[i].type = "domainEnabled" =>
            includes(last.emitted[i].domains, last.emitted[i].domain)

\* C20: device connect and disconnect, client connect and disconnect, the
\* channel open/close/debug listeners and the outbound send leave
\* enabledDomains as they found it.
C20_LifecycleKeepsDomains ==
    last.op \in {"connect", "disconnect", "connectWebSocket", "disconnectWebSocket",
                 "wsOpen", "wsClose", "debug", "send"} => domains = last.pre

C20_Witness ==
    /\ last.op = "disconnectWebSocket"
    /\ socket = None
    /\ Len(last.pre) = 2 /\ domains = last.pre
====
